---------------------------- MODULE Spec2Model ----------------------------
(***************************************************************************)
(* Voice-to-image pipeline of adsnap-studio:                               *)
(*   src/src/services/voice_to_image.py    VoiceToImageService             *)
(*   src/src/components/voice_to_image.py  render_voice_to_image_section   *)
(* Strings are sequences of one-character strings, so that lower(),        *)
(* capitalize(), endswith() and substring tests are computed, not assumed. *)
(***************************************************************************)
EXTENDS Integers, Sequences, FiniteSets, TLC

VARIABLES
    service,                       \* the VoiceToImageService held in st.session_state
    session,                       \* the transcription keys of st.session_state
    tmp_files,                     \* temporary files of the service present on disk
    req,                           \* what the last call or click did
    v_file, v_result, v_done,      \* one validate_audio_file call
    e_text, e_result, e_done,      \* one enhance_voice_prompt call
    images,                        \* st.session_state.generated_images
    gen,                           \* what the last "Generate Image" click did
    bg                             \* what the last remove_background call did

vars == <<service, session, tmp_files, req,
          v_file, v_result, v_done, e_text, e_result, e_done, images, gen, bg>>

(***************************************************************************)
(* Bounds of the model                                                     *)
(***************************************************************************)
\* upload sizes are taken within SizeSpread bytes of the 25 MiB limit
SizeSpread == 1
\* transcribed texts are concatenations of at most MaxChunks chunks
MaxChunks == 2
\* decoded audio has 1..MaxChannels channels
MaxChannels == 2
\* calls are taken while fewer than MaxTmpFiles temporary files are on disk
MaxTmpFiles == 2
\* "Generate Image" is clicked while fewer than MaxImages images are stored
MaxImages == 2

(***************************************************************************)
(* Character strings                                                       *)
(***************************************************************************)
UpperLetters == <<"A", "B", "C", "D", "E", "F", "G", "H", "I", "J", "K", "L", "M",
    "N", "O", "P", "Q", "R", "S", "T", "U", "V", "W", "X", "Y", "Z">>
LowerLetters == <<"a", "b", "c", "d", "e", "f", "g", "h", "i", "j", "k", "l", "m",
    "n", "o", "p", "q", "r", "s", "t", "u", "v", "w", "x", "y", "z">>

\* str.lower() / str.upper() on one character
LowerChar(c) ==
    IF \E i \in 1..Len(UpperLetters) : UpperLetters[i] = c
    THEN LowerLetters[CHOOSE i \in 1..Len(UpperLetters) : UpperLetters[i] = c]
    ELSE c
UpperChar(c) ==
    IF \E i \in 1..Len(LowerLetters) : LowerLetters[i] = c
    THEN UpperLetters[CHOOSE i \in 1..Len(LowerLetters) : LowerLetters[i] = c]
    ELSE c

\* str.lower()
Lower(s) == [i \in 1..Len(s) |-> LowerChar(s[i])]

\* str.capitalize(): first character upper-cased, all the others lower-cased
Capitalize(s) == [i \in 1..Len(s) |-> IF i = 1 THEN UpperChar(s[i]) ELSE LowerChar(s[i])]

\* sub in s
Contains(s, sub) ==
    \E i \in 0..(Len(s) - Len(sub)) : SubSeq(s, i + 1, i + Len(sub)) = sub

\* str.endswith(tuple of one-character strings)
EndsWithAny(s, chars) == Len(s) > 0 /\ s[Len(s)] \in chars

\* str.rfind(c): the last index of c in s, 0 when absent (Python: -1)
RFind(s, c) ==
    IF \E i \in 1..Len(s) : s[i] = c
    THEN CHOOSE i \in 1..Len(s) : s[i] = c /\ \A j \in (i + 1)..Len(s) : s[j] # c
    ELSE 0

kw_professional == <<"p", "r", "o", "f", "e", "s", "s", "i", "o", "n", "a", "l">>
kw_high_quality == <<"h", "i", "g", "h", " ", "q", "u", "a", "l", "i", "t", "y">>
kw_studio_lighting == <<"s", "t", "u", "d", "i", "o", " ", "l", "i", "g", "h", "t", "i", "n",
    "g">>
kw_clean_background == <<"c", "l", "e", "a", "n", " ", "b", "a", "c", "k", "g", "r", "o", "u",
    "n", "d">>
kw_product_photography == <<"p", "r", "o", "d", "u", "c", "t", " ", "p", "h", "o", "t", "o",
    "g", "r", "a", "p", "h", "y">>
kw_commercial == <<"c", "o", "m", "m", "e", "r", "c", "i", "a", "l">>
kw_advertising == <<"a", "d", "v", "e", "r", "t", "i", "s", "i", "n", "g">>
enhancement_suffix == <<",", " ", "p", "r", "o", "f", "e", "s", "s", "i", "o", "n", "a", "l",
    " ", "p", "r", "o", "d", "u", "c", "t", " ", "p", "h", "o", "t", "o", "g", "r", "a", "p",
    "h", "y", ",", " ", "s", "t", "u", "d", "i", "o", " ", "l", "i", "g", "h", "t", "i", "n",
    "g", ",", " ", "c", "l", "e", "a", "n", " ", "b", "a", "c", "k", "g", "r", "o", "u", "n",
    "d">>
txt_sneaker == <<"a", " ", "r", "e", "d", " ", "s", "n", "e", "a", "k", "e", "r", " ", "o",
    "n", " ", "a", " ", "t", "a", "b", "l", "e">>
txt_sneaker_enhanced == <<"A", " ", "r", "e", "d", " ", "s", "n", "e", "a", "k", "e", "r", " ",
    "o", "n", " ", "a", " ", "t", "a", "b", "l", "e", ",", " ", "p", "r", "o", "f", "e", "s",
    "s", "i", "o", "n", "a", "l", " ", "p", "r", "o", "d", "u", "c", "t", " ", "p", "h", "o",
    "t", "o", "g", "r", "a", "p", "h", "y", ",", " ", "s", "t", "u", "d", "i", "o", " ", "l",
    "i", "g", "h", "t", "i", "n", "g", ",", " ", "c", "l", "e", "a", "n", " ", "b", "a", "c",
    "k", "g", "r", "o", "u", "n", "d", ".">>
txt_professional_cap == <<"P", "r", "o", "f", "e", "s", "s", "i", "o", "n", "a", "l">>
txt_high_quality_upper == <<"H", "I", "G", "H", " ", "Q", "U", "A", "L", "I", "T", "Y">>
txt_pro == <<"P", "r", "o">>
txt_fessional == <<"f", "e", "s", "s", "i", "o", "n", "a", "l">>
txt_nike == <<"N", "i", "k", "e", " ", "S", "h", "o", "e">>
txt_space == <<" ">>
ext_wav == <<".", "w", "a", "v">>
ext_mp3 == <<".", "m", "p", "3">>
ext_m4a == <<".", "m", "4", "a">>
ext_flac == <<".", "f", "l", "a", "c">>
ext_ogg == <<".", "o", "g", "g">>
name_wav == <<"c", "l", "i", "p", ".", "w", "a", "v">>
name_wav_upper == <<"C", "L", "I", "P", ".", "W", "A", "V">>
name_mp3_mixed == <<"a", ".", "M", "p", "3">>
name_m4a == <<"a", ".", "m", "4", "a">>
name_flac == <<"a", ".", "f", "l", "a", "c">>
name_ogg == <<"a", ".", "b", ".", "o", "g", "g">>
name_txt == <<"a", ".", "t", "x", "t">>
name_noext == <<"w", "a", "v">>
name_dotfile == <<".", "w", "a", "v">>
name_double == <<"a", ".", "w", "a", "v", ".", "e", "x", "e">>
name_wave == <<"a", ".", "w", "a", "v", "e">>
name_trailing_dot == <<"a", ".", "w", "a", "v", ".">>
name_dir_dot == <<"a", ".", "b", "/", "o", "g", "g">>
name_ogg_upper == <<"A", ".", "O", "G", "G">>
name_flac_mixed == <<"b", ".", "F", "l", "A", "c">>
name_mp4 == <<"a", ".", "m", "p", "4">>
name_dots_only == <<".", ".", "w", "a", "v">>
txt_shot == <<"P", "r", "o", "f", "e", "s", "s", "i", "o", "n", "a", "l", " ", "s", "h", "o",
    "t", "!">>
txt_what == <<"w", "h", "a", "t", "?">>
txt_bang == <<"!">>
txt_dot == <<".">>

(***************************************************************************)
(* validate_audio_file                                                     *)
(***************************************************************************)
\* audio_file is None
NoFile == [none |-> TRUE]

\* the size limit of line 286
MaxFileBytes == 25 * 1024 * 1024

allowed_extensions == {ext_wav, ext_mp3, ext_m4a, ext_flac, ext_ogg}

\* os.path.splitext(p)[1]: from the last dot of the last path component on,
\* empty when that component has no dot or only leading dots
SplitExt(p) ==
    LET sepIndex == RFind(p, "/")
        dotIndex == RFind(p, ".")
    IN  IF /\ dotIndex > sepIndex
           /\ \E k \in (sepIndex + 1)..(dotIndex - 1) : p[k] # "."
        THEN SubSeq(p, dotIndex, Len(p))
        ELSE <<>>

\* the mutant: the size test rejects a file of exactly the limit
ValidateAudioFile_SizeOffByOne(audio_file) ==
    IF audio_file = NoFile THEN FALSE
    ELSE IF audio_file.size >= MaxFileBytes THEN FALSE
    ELSE IF Lower(SplitExt(audio_file.name)) \notin allowed_extensions THEN FALSE
    ELSE TRUE

\* the mutant: the size test is missing
ValidateAudioFile_NoSizeCheck(audio_file) ==
    IF audio_file = NoFile THEN FALSE
    ELSE IF Lower(SplitExt(audio_file.name)) \notin allowed_extensions THEN FALSE
    ELSE TRUE

\* validate_audio_file(audio_file): the returned bool
ValidateAudioFile(audio_file) ==
    IF audio_file = NoFile THEN FALSE
    ELSE LET file_size == audio_file.size          \* seek(0, 2); tell()
             file_extension == Lower(SplitExt(audio_file.name))
         IN  IF file_size > MaxFileBytes THEN FALSE
             ELSE IF file_extension \notin allowed_extensions THEN FALSE
             ELSE TRUE

\* validate_audio_file leaves the stream of a non-null upload at offset 0
AfterValidate(audio_file) ==
    IF audio_file = NoFile THEN audio_file ELSE [audio_file EXCEPT !.pos = 0]

(***************************************************************************)
(* enhance_voice_prompt                                                    *)
(***************************************************************************)
photography_keywords ==
    {kw_professional, kw_high_quality, kw_studio_lighting, kw_clean_background,
     kw_product_photography, kw_commercial, kw_advertising}

\* the mutant: the keyword test forgets .lower()
HasPhotographyKeywords_CaseSensitive(enhanced_prompt) ==
    \E keyword \in photography_keywords : Contains(enhanced_prompt, keyword)

\* any(keyword in enhanced_prompt.lower() for keyword in photography_keywords)
HasPhotographyKeywords(enhanced_prompt) ==
    \E keyword \in photography_keywords : Contains(Lower(enhanced_prompt), keyword)

\* the mutant: only a final '.' counts as punctuation
EnhanceVoicePrompt_PeriodOnly(transcribed_text) ==
    IF transcribed_text = <<>> THEN <<>>
    ELSE LET withSuffix ==
                 IF ~HasPhotographyKeywords(transcribed_text)
                 THEN transcribed_text \o enhancement_suffix
                 ELSE transcribed_text
             capitalized == Capitalize(withSuffix)
         IN  IF ~EndsWithAny(capitalized, {"."})
             THEN capitalized \o <<".">>
             ELSE capitalized

EnhanceVoicePrompt(transcribed_text) ==
    IF transcribed_text = <<>> THEN <<>>
    ELSE LET withSuffix ==
                 IF ~HasPhotographyKeywords(transcribed_text)
                 THEN transcribed_text \o enhancement_suffix
                 ELSE transcribed_text
             capitalized == Capitalize(withSuffix)
         IN  IF ~EndsWithAny(capitalized, {".", "!", "?"})
             THEN capitalized \o <<".">>
             ELSE capitalized

(***************************************************************************)
(* Inputs                                                                  *)
(***************************************************************************)
FileNames ==
    {name_wav, name_wav_upper, name_mp3_mixed, name_m4a, name_flac, name_ogg,
     name_txt, name_noext, name_dotfile, name_double, name_wave,
     name_trailing_dot, name_dir_dot, name_ogg_upper, name_flac_mixed,
     name_mp4, name_dots_only}

FileSizes == {0} \cup {MaxFileBytes + d : d \in (0 - SizeSpread)..SizeSpread}

Uploads ==
    {[name |-> n, size |-> s, pos |-> p] : n \in FileNames, s \in FileSizes, p \in {0}}
    \cup {[name |-> n, size |-> s, pos |-> s] : n \in {name_wav, name_txt}, s \in FileSizes}

Chunks ==
    {txt_sneaker, txt_professional_cap, txt_high_quality_upper, txt_pro,
     txt_fessional, txt_nike, txt_space, txt_bang, txt_dot, txt_what,
     kw_commercial, kw_advertising}

RECURSIVE TextsUpTo(_)
TextsUpTo(n) ==
    IF n = 0 THEN {<<>>}
    ELSE LET shorter == TextsUpTo(n - 1)
         IN  shorter \cup {t \o c : t \in shorter, c \in Chunks}

Texts == TextsUpTo(MaxChunks)

(***************************************************************************)
(* VoiceToImageService: __init__ and load_model                            *)
(***************************************************************************)
\* options of the "Whisper Model Size" select box that the model draws from
ModelSizes == {"base", "large"}
\* "None" is the auto-detect choice (selected_language = None)
Languages == {"None", "en"}
\* "cuda:0" if torch.cuda.is_available() else "cpu"
Devices == {"cuda:0", "cpu"}

NoModel == [none |-> TRUE]
NoProcessor == "None"

\* __init__
NewService(dev) ==
    [model |-> NoModel, processor |-> NoProcessor, model_loaded |-> FALSE, device |-> dev]

\* how a load can end: both from_pretrained calls can raise (download, disk,
\* memory), and so can moving the model to an accelerator
LoadOutcomes(svc) ==
    {"ok", "processor_raises", "model_raises"}
    \cup (IF svc.device # "cpu" THEN {"to_raises"} ELSE {})

\* the mutant: model_loaded is set before the steps that can raise
LoadModel_FlagFirst(svc, model_size, outcome) ==
    IF ~svc.model_loaded \/ svc.model = NoModel
    THEN CASE outcome = "processor_raises" ->
                [svc |-> [svc EXCEPT !.model_loaded = TRUE], ret |-> FALSE]
           [] outcome = "model_raises" ->
                [svc |-> [svc EXCEPT !.processor = model_size,
                                     !.model_loaded = TRUE], ret |-> FALSE]
           [] outcome = "to_raises" ->
                [svc |-> [svc EXCEPT !.processor = model_size,
                                     !.model = [size |-> model_size, on |-> "cpu"],
                                     !.model_loaded = TRUE],
                 ret |-> FALSE]
           [] OTHER ->
                [svc |-> [svc EXCEPT !.processor = model_size,
                                     !.model = [size |-> model_size, on |-> svc.device],
                                     !.model_loaded = TRUE],
                 ret |-> TRUE]
    ELSE [svc |-> svc, ret |-> TRUE]

\* load_model(model_size): the service afterwards and the returned bool
LoadModel(svc, model_size, outcome) ==
    IF ~svc.model_loaded \/ svc.model = NoModel
    THEN CASE outcome = "processor_raises" ->
                [svc |-> svc, ret |-> FALSE]
           [] outcome = "model_raises" ->
                [svc |-> [svc EXCEPT !.processor = model_size], ret |-> FALSE]
           [] outcome = "to_raises" ->
                [svc |-> [svc EXCEPT !.processor = model_size,
                                     !.model = [size |-> model_size, on |-> "cpu"]],
                 ret |-> FALSE]
           [] OTHER ->
                [svc |-> [svc EXCEPT !.processor = model_size,
                                     !.model = [size |-> model_size, on |-> svc.device],
                                     !.model_loaded = TRUE],
                 ret |-> TRUE]
    ELSE [svc |-> svc, ret |-> TRUE]

(***************************************************************************)
(* transcribe_audio, lines 43-114.  The statements of lines 116-231 (the   *)
(* preprocessing and the file / array / CPU-only cascade) follow a try     *)
(* statement whose body returns at line 100 and whose handler returns at   *)
(* line 114, so control never reaches them: they have no transition here.  *)
(***************************************************************************)
SampleRates == {8000, 16000, 44100}

\* what sf.read returns: a 1-D array for one channel, (frames, channels) otherwise
DecodedAudios ==
    {[ndim |-> IF c = 1 THEN 1 ELSE 2, channels |-> c, rate |-> r, ops |-> <<>>] :
        c \in 1..MaxChannels, r \in SampleRates}

\* the mutant: only more than two channels are averaged
ToMono_MoreThanStereo(audio_data) ==
    IF audio_data.ndim > 1 /\ audio_data.channels > 2
    THEN [audio_data EXCEPT !.ndim = 1, !.channels = 1, !.ops = @ \o <<"mean">>]
    ELSE audio_data

\* lines 69-70: np.mean(audio_data, axis=1) when there is more than one channel
ToMono(audio_data) ==
    IF audio_data.ndim > 1 /\ audio_data.channels > 1
    THEN [audio_data EXCEPT !.ndim = 1, !.channels = 1, !.ops = @ \o <<"mean">>]
    ELSE audio_data

\* librosa.resample(y, orig_sr, target_sr): the samples at target_sr / orig_sr
\* times their rate
Resample(audio_data, orig_sr, target_sr) ==
    [audio_data EXCEPT !.rate = (@ * target_sr) \div orig_sr,
                       !.ops = @ \o <<"resample">>]

\* lines 68-74
Normalize(audio_data, sample_rate) ==
    LET mono == ToMono(audio_data)
    IN  IF sample_rate # 16000 THEN Resample(mono, sample_rate, 16000) ELSE mono

\* language or "auto-detected"
LanguageOrAuto(language) ==
    IF language = "None" \/ language = "" THEN "auto-detected" ELSE language

\* the mutant: the device is reported as the CPU whatever self.device is
TranscriptionInfo_AlwaysCpu(svc, language) ==
    {<<"language", LanguageOrAuto(language)>>,
     <<"model", "openai/whisper">>,
     <<"device", "cpu">>}

\* lines 100-104: the info dict of a successful transcription
TranscriptionInfo(svc, language) ==
    {<<"language", LanguageOrAuto(language)>>,
     <<"model", "openai/whisper">>,
     <<"device", svc.device>>}

ErrorInfo(message) == {<<"error", message>>}

\* what the model can transcribe: nothing, a text without and one with a keyword
Transcripts == {<<>>, txt_sneaker, txt_shot}

\* the environments of one call: how the inner load ends, where the call
\* raises (creating the temporary file, writing the upload's bytes to it,
\* sf.read, librosa.resample, the processor / model.generate / batch_decode
\* chain, or nowhere), what sf.read decodes and what the model transcribes
\* (one representative of the choices the call does not look at)
EnvsOver(loads, audios) ==
    LET env(l, f, a, t) == [load |-> l, fail |-> f, audio |-> a, text |-> t]
        any == [ndim |-> 1, channels |-> 1, rate |-> 16000, ops |-> <<>>]
    IN  {env(l, f, any, <<>>) : l \in loads, f \in {"tmp_create", "write", "decode"}}
        \cup {env(l, "resample", a, <<>>) : l \in loads, a \in {x \in audios : x.rate # 16000}}
        \cup {env(l, "generate", a, <<>>) : l \in loads, a \in audios}
        \cup {env(l, "none", a, t) : l \in loads, a \in audios, t \in Transcripts}

TranscribeEnvs(svc) ==
    EnvsOver(IF svc.model_loaded THEN {"ok"} ELSE LoadOutcomes(svc), DecodedAudios)

\* the mutant: the exception is not caught and reaches the caller
EarlyReturn_Raises(svc, load_calls, message) ==
    [svc |-> svc, raised |-> TRUE, text |-> <<>>, info |-> {},
     load_calls |-> load_calls, tmp_created |-> 0, tmp_left |-> 0,
     audio |-> <<>>, handed |-> <<>>, attempts |-> <<>>]

\* the outcome of a call that returned before touching the file system: the
\* return of line 56 and that of the handler of lines 113-114
EarlyReturn(svc, load_calls, message) ==
    [svc |-> svc, raised |-> FALSE, text |-> <<>>, info |-> ErrorInfo(message),
     load_calls |-> load_calls, tmp_created |-> 0, tmp_left |-> 0,
     audio |-> <<>>, handed |-> <<>>, attempts |-> <<>>]

\* transcribe_audio(audio_file, language)
TranscribeAudio(svc, audio_file, language, env) ==
    LET needLoad == ~svc.model_loaded
        loaded == IF needLoad THEN LoadModel(svc, "base", env.load)
                  ELSE [svc |-> svc, ret |-> TRUE]
        load_calls == IF needLoad THEN <<"base">> ELSE <<>>
        s == loaded.svc
        failed == EarlyReturn(s, load_calls, "Error during transcription")
        audio_data == Normalize(env.audio, env.audio.rate)
        attempt(ok) == [input |-> "array", device |-> s.model.on,
                        verbose |-> FALSE, ok |-> ok]
    IN  IF ~loaded.ret
        THEN EarlyReturn(s, load_calls, "Failed to load Whisper model")
        ELSE CASE env.fail = "tmp_create" ->
                    \* NamedTemporaryFile raises: no file, handler of line 113
                    failed
               [] env.fail = "write" ->
                    \* tmp_file.write raises inside the with block: the file was
                    \* created with delete=False and the try/finally of lines
                    \* 64-111 has not been entered
                    [failed EXCEPT !.tmp_created = 1, !.tmp_left = 1]
               [] env.fail = "decode" ->
                    [failed EXCEPT !.tmp_created = 1]
               [] env.fail = "resample" ->
                    [failed EXCEPT !.tmp_created = 1, !.audio = <<env.audio>>]
               [] env.fail = "generate" ->
                    [failed EXCEPT !.tmp_created = 1, !.audio = <<env.audio>>,
                                   !.handed = <<audio_data>>,
                                   !.attempts = <<attempt(FALSE)>>]
               [] OTHER ->
                    [failed EXCEPT !.tmp_created = 1, !.audio = <<env.audio>>,
                                   !.handed = <<audio_data>>,
                                   !.attempts = <<attempt(TRUE)>>,
                                   !.text = env.text,
                                   !.info = TranscriptionInfo(s, language)]

(***************************************************************************)
(* The record of the last call                                             *)
(***************************************************************************)
NoReq ==
    [op |-> "none", upload |-> NoFile, language |-> "None", model_size |-> "None",
     valid |-> FALSE, load_ret |-> FALSE, load_calls |-> <<>>,
     tmp_created |-> 0, tmp_left |-> 0, audio |-> <<>>, handed |-> <<>>,
     attempts |-> <<>>, raised |-> FALSE, text |-> <<>>, info |-> {}]

\* the fields a transcribe_audio call fills in
WithTranscription(r, t) ==
    [r EXCEPT !.load_calls = @ \o t.load_calls,
              !.tmp_created = t.tmp_created, !.tmp_left = t.tmp_left,
              !.audio = t.audio, !.handed = t.handed, !.attempts = t.attempts,
              !.raised = t.raised, !.text = t.text, !.info = t.info]

\* no "Generate Image" click and no remove_background call made yet
NoGen ==
    [op |-> "none", has_key |-> FALSE, raised |-> FALSE, response |-> [kind |-> "none"],
     image_url |-> <<>>, reported |-> "none"]

NoBg ==
    [op |-> "none", request |-> <<>>, calls |-> <<>>, outcome |-> "none",
     returned |-> <<>>]

ApiIdle ==
    /\ images = <<>>
    /\ gen = NoGen
    /\ bg = NoBg

PureIdle ==
    /\ v_file = NoFile
    /\ v_result = FALSE
    /\ v_done = FALSE
    /\ e_text = <<>>
    /\ e_result = <<>>
    /\ e_done = FALSE

Absent == <<"<absent>">>

\* lines 24-31: the keys the component initialises; the two shared keys
\* 'original_prompt' and 'enhanced_prompt' are not created here
NewSession ==
    [voice_original_prompt |-> <<>>, voice_enhanced_prompt |-> <<>>,
     voice_transcription_info |-> {}, voice_audio_uploaded |-> FALSE,
     original_prompt |-> Absent, enhanced_prompt |-> Absent]

Init ==
    /\ service \in {NewService(d) : d \in Devices}
    /\ session = NewSession
    /\ tmp_files = 0
    /\ req = NoReq
    /\ PureIdle
    /\ ApiIdle

(***************************************************************************)
(* Calls of the service's methods                                          *)
(***************************************************************************)
\* the upload the direct calls are made with
ServiceFiles == {[name |-> name_wav, size |-> MaxFileBytes, pos |-> 0]}

LoadModelCall ==
    \E model_size \in ModelSizes : \E outcome \in LoadOutcomes(service) :
        LET l == LoadModel(service, model_size, outcome)
        IN  /\ service' = l.svc
            /\ req' = [NoReq EXCEPT !.op = "load_model", !.model_size = model_size,
                                    !.load_calls = <<model_size>>, !.load_ret = l.ret]
            /\ UNCHANGED <<session, tmp_files, v_file, v_result, v_done,
                           e_text, e_result, e_done, images, gen, bg>>

TranscribeAudioCall ==
    /\ tmp_files < MaxTmpFiles
    /\ \E audio_file \in ServiceFiles : \E language \in Languages :
       \E env \in TranscribeEnvs(service) :
        LET t == TranscribeAudio(service, audio_file, language, env)
        IN  /\ service' = t.svc
            /\ tmp_files' = tmp_files + t.tmp_left
            /\ req' = WithTranscription(
                          [NoReq EXCEPT !.op = "transcribe_audio",
                                        !.upload = audio_file,
                                        !.language = language], t)
            /\ UNCHANGED <<session, v_file, v_result, v_done, e_text, e_result, e_done,
                           images, gen, bg>>

SpecService == Init /\ [][LoadModelCall \/ TranscribeAudioCall]_vars

(***************************************************************************)
(* render_voice_to_image_section: the Transcribe and the Clear buttons     *)
(***************************************************************************)
\* lines 81-88
StoreTranscription(s, transcribed_text, transcription_info) ==
    [s EXCEPT !.voice_original_prompt = transcribed_text,
              !.voice_enhanced_prompt = EnhanceVoicePrompt(transcribed_text),
              !.voice_transcription_info = transcription_info,
              !.voice_audio_uploaded = TRUE,
              !.original_prompt = transcribed_text,
              !.enhanced_prompt = EnhanceVoicePrompt(transcribed_text)]

\* lines 106-109
HasTranscription(s) ==
    \/ s.voice_original_prompt # <<>>
    \/ (s.original_prompt # Absent /\ s.original_prompt # <<>>)

\* the uploads, the decoded audio and the transcripts the clicks are made with
ClickUploads ==
    {[name |-> name_wav, size |-> MaxFileBytes, pos |-> 0],
     [name |-> name_mp3_mixed, size |-> 0, pos |-> 0],
     [name |-> name_wav, size |-> MaxFileBytes + 1, pos |-> 0],
     [name |-> name_txt, size |-> 0, pos |-> 0],
     [name |-> name_double, size |-> MaxFileBytes + 1, pos |-> 0],
     [name |-> name_noext, size |-> MaxFileBytes, pos |-> 0]}

ClickEnvs(svc) ==
    {e \in EnvsOver({"ok"}, {[ndim |-> 2, channels |-> 2, rate |-> 44100, ops |-> <<>>]}) :
        e.text \in {<<>>, txt_shot}}

\* lines 70-102: a click on "Transcribe Audio" with an upload present
ClickTranscribe ==
    /\ tmp_files < MaxTmpFiles
    /\ \E uploaded_audio \in ClickUploads : \E model_size \in ModelSizes :
       \E selected_language \in Languages :
        LET click == [NoReq EXCEPT !.op = "click", !.upload = uploaded_audio,
                                   !.language = selected_language,
                                   !.model_size = model_size]
        IN  IF ~ValidateAudioFile(uploaded_audio)
            THEN /\ req' = click
                 /\ UNCHANGED <<service, session, tmp_files>>
            ELSE \E outcome \in LoadOutcomes(service) :
                   LET l == LoadModel(service, model_size, outcome)
                       tried == [click EXCEPT !.valid = TRUE, !.load_ret = l.ret,
                                              !.load_calls = <<model_size>>]
                   IN  IF ~l.ret
                       THEN /\ service' = l.svc
                            /\ req' = tried
                            /\ UNCHANGED <<session, tmp_files>>
                       ELSE \E env \in ClickEnvs(l.svc) :
                              LET t == TranscribeAudio(l.svc, AfterValidate(uploaded_audio),
                                                       selected_language, env)
                              IN  /\ service' = t.svc
                                  /\ tmp_files' = tmp_files + t.tmp_left
                                  /\ req' = WithTranscription(tried, t)
                                  /\ session' =
                                       IF t.text # <<>>
                                       THEN StoreTranscription(session, t.text, t.info)
                                       ELSE session
    /\ UNCHANGED <<v_file, v_result, v_done, e_text, e_result, e_done, images, gen, bg>>

\* lines 232-250: a click on "Clear Transcription"
ClearTranscription ==
    /\ HasTranscription(session)
    /\ session' = [session EXCEPT
                       !.voice_original_prompt = <<>>,
                       !.voice_enhanced_prompt = <<>>,
                       !.voice_transcription_info = {},
                       !.voice_audio_uploaded = FALSE,
                       !.original_prompt = IF @ # Absent THEN <<>> ELSE @,
                       !.enhanced_prompt = IF @ # Absent THEN <<>> ELSE @]
    /\ req' = [NoReq EXCEPT !.op = "clear"]
    /\ UNCHANGED <<service, tmp_files, v_file, v_result, v_done,
                   e_text, e_result, e_done, images, gen, bg>>

Next == ClickTranscribe \/ ClearTranscription

Spec == Init /\ [][Next]_vars

(***************************************************************************)
(* render_voice_to_image_section: the "Generate Image from Voice" button.  *)
(* generate_hd_image is called through its import; what it returns or      *)
(* raises is an input of the click.  An optional value is <<>> (the key is *)
(* absent, None) or <<v>>.                                                 *)
(***************************************************************************)
\* the dicts found in or as result['result']
InnerDicts ==
    {[urls |-> us, url |-> u] :
        us \in {<<>>, << <<>> >>, << <<"http://urls0">> >>},
        u \in {<<>>, <<"http://url">>}}

\* result['result']: a list of dicts, or a dict
ResultValues ==
    {[kind |-> "list", items |-> <<>>]}
    \cup {[kind |-> "list", items |-> <<d>>] : d \in InnerDicts}
    \cup {[kind |-> "dict", items |-> <<d>>] :
             d \in {[urls |-> <<>>, url |-> <<"http://url">>], [urls |-> <<>>, url |-> <<>>]}}

\* what generate_hd_image returns: None or {}, a value that is no dict, or a
\* dict (one with none of the four keys stands for {"foo": "bar"})
Responses ==
    {[kind |-> "none"], [kind |-> "other"]}
    \cup {[kind |-> "dict", result |-> r, result_url |-> ru, url |-> u, result_urls |-> rus] :
             r \in {<<>>} \cup {<<v>> : v \in ResultValues},
             ru \in {<<>>, <<"">>, <<"http://result_url">>},
             u \in {<<>>, <<"http://top_url">>},
             rus \in {<<>>, << <<>> >>, << <<"http://result_urls0">> >>}}

\* bool(result['result'])
ResultValueTruthy(v) ==
    IF v.kind = "list" THEN v.items # <<>>
    ELSE v.items[1].urls # <<>> \/ v.items[1].url # <<>>

\* lines 187-191 (and 193-196): "urls" first, then "url"
UrlOfDict(d) ==
    IF d.urls # <<>> /\ d.urls[1] # <<>> THEN <<d.urls[1][1]>>
    ELSE IF d.url # <<>> THEN d.url
    ELSE <<>>

\* lines 177-208: image_url after the extraction
ExtractImageUrl(result) ==
    IF result.kind # "dict" THEN <<>>
    ELSE IF result.result # <<>> /\ ResultValueTruthy(result.result[1])
         THEN UrlOfDict(result.result[1].items[1])
    ELSE IF result.result_url # <<>> THEN result.result_url
    ELSE IF result.url # <<>> THEN result.url
    ELSE IF result.result_urls # <<>> /\ result.result_urls[1] # <<>>
         THEN <<result.result_urls[1][1]>>
    ELSE <<>>

\* the mutant: an image is stored whenever image_url is not None
ImageUrlTruthy_NotNone(image_url) == image_url # <<>>

\* line 210: if image_url
ImageUrlTruthy(image_url) == image_url # <<>> /\ image_url[1] # ""

\* line 163
CurrentEnhancedPrompt(s) ==
    IF s.voice_enhanced_prompt # <<>> THEN s.voice_enhanced_prompt
    ELSE IF s.enhanced_prompt # Absent THEN s.enhanced_prompt
    ELSE <<>>

\* lines 164-227
GenerateClick ==
    /\ CurrentEnhancedPrompt(session) # <<>>
    /\ Len(images) < MaxImages
    /\ \E has_key \in BOOLEAN : \E raises \in BOOLEAN : \E result \in Responses :
        LET click == [NoGen EXCEPT !.op = "generate", !.has_key = has_key]
            image_url == ExtractImageUrl(result)
        IN  IF ~has_key
            THEN \* image_url is never bound: line 210 raises, line 226 reports
                 /\ gen' = [click EXCEPT !.reported = "error"]
                 /\ images' = images
            ELSE IF raises
            THEN /\ gen' = [click EXCEPT !.raised = TRUE, !.reported = "error"]
                 /\ images' = images
            ELSE IF ImageUrlTruthy(image_url)
            THEN /\ gen' = [click EXCEPT !.response = result, !.image_url = image_url,
                                         !.reported = "success"]
                 /\ images' = Append(images,
                                [url |-> image_url[1],
                                 prompt |-> CurrentEnhancedPrompt(session),
                                 source |-> "voice",
                                 timestamp |-> "time.time()"])
            ELSE /\ gen' = [click EXCEPT !.response = result, !.image_url = image_url,
                                         !.reported = "failed"]
                 /\ images' = images
    /\ UNCHANGED <<service, session, tmp_files, req, v_file, v_result, v_done,
                   e_text, e_result, e_done, bg>>

\* a session in which a transcription has been stored by the Transcribe button
InitImage ==
    /\ service = LoadModel(NewService("cpu"), "base", "ok").svc
    /\ session \in {StoreTranscription(NewSession, t,
                                       TranscriptionInfo(NewService("cpu"), "None")) :
                       t \in {txt_shot, txt_sneaker}}
    /\ tmp_files = 0
    /\ req = NoReq
    /\ PureIdle
    /\ ApiIdle

SpecImage == InitImage /\ [][GenerateClick]_vars

(***************************************************************************)
(* background_service.py: remove_background and remove_background_fallback *)
(***************************************************************************)
PrimaryEndpoint == "https://engine.prod.bria-api.com/v1/background/remove"
AlternateEndpoint == "https://engine.prod.bria-api.com/v1/erase_background"

\* the JSON objects an endpoint answers with: 'urls' may hold a list or, with
\* list |-> FALSE, a value that is no list
BgBodies ==
    {[result_url |-> ru, urls |-> us, url |-> u] :
        ru \in {<<>>, <<"http://result_url">>},
        us \in {<<>>,
                <<[list |-> TRUE, items |-> <<>>]>>,
                <<[list |-> TRUE, items |-> <<"http://urls0", "http://urls1">>]>>,
                <<[list |-> FALSE, items |-> <<"http://not-a-list">>]>>},
        u \in {<<>>, <<"http://url">>}}

\* what requests.post / raise_for_status / response.json() make of one call:
\* an HTTP answer (a JSON body with status 200), an answer that is no JSON,
\* or no answer at all
BgReplies ==
    {[kind |-> "http", status |-> 200, body |-> <<b>>] : b \in BgBodies}
    \cup {[kind |-> "http", status |-> s, body |-> <<>>] : s \in {403, 404, 500}}
    \cup {[kind |-> "badjson", status |-> 200, body |-> <<>>],
          [kind |-> "network", status |-> 0, body |-> <<>>]}

\* the mutant: "url" is looked at before "urls"
NormalizeResult_UrlFirst(result) ==
    IF result.result_url # <<>> THEN result
    ELSE IF result.url # <<>>
         THEN [result_url |-> result.url, urls |-> <<>>, url |-> <<>>]
    ELSE IF result.urls # <<>> /\ result.urls[1].list /\ Len(result.urls[1].items) > 0
         THEN [result_url |-> <<result.urls[1].items[1]>>, urls |-> <<>>, url |-> <<>>]
    ELSE result

\* lines 58-67 and 112-120: the dict returned for a decoded answer
NormalizeResult(result) ==
    IF result.result_url # <<>> THEN result
    ELSE IF result.urls # <<>> /\ result.urls[1].list /\ Len(result.urls[1].items) > 0
         THEN [result_url |-> <<result.urls[1].items[1]>>, urls |-> <<>>, url |-> <<>>]
    ELSE IF result.url # <<>>
         THEN [result_url |-> result.url, urls |-> <<>>, url |-> <<>>]
    ELSE result

\* lines 33-43 and 96-103: the JSON sent; 'file' is the base64 text of the bytes
RequestData(image_data, image_url, content_moderation) ==
    [content_moderation |-> content_moderation,
     image_url |-> IF image_url # <<>> THEN image_url ELSE <<>>,
     file |-> IF image_url = <<>> /\ image_data # <<>>
              THEN <<[b64encode |-> image_data[1]]>> ELSE <<>>]

\* response.raise_for_status(): an HTTPError for the 4xx and 5xx answers
RaisesHTTPError(reply) ==
    reply.kind = "http" /\ reply.status >= 400 /\ reply.status < 600

\* the mutant: every client error leads to the alternate endpoint
IsNotFound_AnyClientError(status_code) == status_code >= 400 /\ status_code < 500

\* line 70
IsNotFound(status_code) == status_code = 404

BgCall(endpoint, data, reply) == [endpoint |-> endpoint, data |-> data, reply |-> reply]

BgRaised(calls, message) ==
    [calls |-> calls, outcome |-> "raised", message |-> message, returned |-> <<>>]

BgReturned(calls, result) ==
    [calls |-> calls, outcome |-> "returned", message |-> "", returned |-> <<result>>]

\* remove_background_fallback, after the calls already made
RemoveBackgroundFallback(calls, image_data, image_url, content_moderation, reply) ==
    LET made == Append(calls, BgCall(AlternateEndpoint,
                           RequestData(image_data, image_url, content_moderation), reply))
    IN  IF reply.kind = "http" /\ ~RaisesHTTPError(reply)
        THEN BgReturned(made, NormalizeResult(reply.body[1]))
        ELSE BgRaised(made, "Background removal fallback failed")

\* remove_background
RemoveBackground(image_data, image_url, content_moderation, reply, fallback_reply) ==
    IF image_url = <<>> /\ image_data = <<>>
    THEN BgRaised(<<>>, "Either image_data or image_url must be provided")
    ELSE LET made == <<BgCall(PrimaryEndpoint,
                              RequestData(image_data, image_url, content_moderation),
                              reply)>>
         IN  IF RaisesHTTPError(reply)
             THEN IF IsNotFound(reply.status)
                  THEN RemoveBackgroundFallback(made, image_data, image_url,
                                                content_moderation, fallback_reply)
                  ELSE BgRaised(made, "Background removal failed")
             ELSE IF reply.kind = "http"
             THEN BgReturned(made, NormalizeResult(reply.body[1]))
             ELSE BgRaised(made, "Background removal failed")

RemoveBackgroundCall ==
    /\ \E image_data \in {<<>>, <<"png-bytes">>} :
       \E image_url \in {<<>>, <<"http://image">>} :
       \E content_moderation \in BOOLEAN :
       \E reply \in BgReplies : \E fallback_reply \in BgReplies :
        LET r == RemoveBackground(image_data, image_url, content_moderation,
                                  reply, fallback_reply)
        IN  bg' = [op |-> "remove_background",
                   request |-> <<[image_data |-> image_data, image_url |-> image_url,
                                  content_moderation |-> content_moderation]>>,
                   calls |-> r.calls, outcome |-> r.outcome, returned |-> r.returned]
    /\ UNCHANGED <<service, session, tmp_files, req, v_file, v_result, v_done,
                   e_text, e_result, e_done, images, gen>>

InitBg ==
    /\ service = NewService("cpu")
    /\ session = NewSession
    /\ tmp_files = 0
    /\ req = NoReq
    /\ PureIdle
    /\ ApiIdle

SpecBg == InitBg /\ [][RemoveBackgroundCall]_vars

(***************************************************************************)
(* Calls of the two pure methods                                           *)
(***************************************************************************)
InitValidate ==
    /\ v_file \in Uploads \cup {NoFile}
    /\ v_result = FALSE
    /\ v_done = FALSE
    /\ e_text = <<>>
    /\ e_result = <<>>
    /\ e_done = FALSE
    /\ service = NewService("cpu")
    /\ session = NewSession
    /\ tmp_files = 0
    /\ req = NoReq
    /\ ApiIdle

ValidateCall ==
    /\ ~v_done
    /\ v_result' = ValidateAudioFile(v_file)
    /\ v_file' = AfterValidate(v_file)
    /\ v_done' = TRUE
    /\ UNCHANGED <<e_text, e_result, e_done, service, session, tmp_files, req, images, gen, bg>>

SpecValidate == InitValidate /\ [][ValidateCall]_vars

InitEnhance ==
    /\ e_text \in Texts
    /\ e_result = <<>>
    /\ e_done = FALSE
    /\ v_file = NoFile
    /\ v_result = FALSE
    /\ v_done = FALSE
    /\ service = NewService("cpu")
    /\ session = NewSession
    /\ tmp_files = 0
    /\ req = NoReq
    /\ ApiIdle

EnhanceCall ==
    /\ ~e_done
    /\ e_result' = EnhanceVoicePrompt(e_text)
    /\ e_done' = TRUE
    /\ UNCHANGED <<e_text, v_file, v_result, v_done, service, session, tmp_files, req, images, gen, bg>>

\* enhance_voice_prompt called again, on the prompt the last call returned
EnhanceAgain ==
    /\ e_done
    /\ e_text' = e_result
    /\ e_result' = EnhanceVoicePrompt(e_result)
    /\ UNCHANGED <<e_done, v_file, v_result, v_done, service, session, tmp_files, req, images, gen, bg>>

SpecEnhance == InitEnhance /\ [][EnhanceCall \/ EnhanceAgain]_vars

(***************************************************************************)
(* C1: validate_audio_file accepts an upload if and only if it is non-null,*)
(* its size is at most 25 MiB (exactly 25 MiB accepted, one byte more      *)
(* rejected) and the extension of its name, compared case-insensitively,   *)
(* is one of wav, mp3, m4a, flac, ogg.                                     *)
(***************************************************************************)
AllowedExtensionCI(name) ==
    \E e \in {<<"w", "a", "v">>, <<"m", "p", "3">>, <<"m", "4", "a">>,
              <<"f", "l", "a", "c">>, <<"o", "g", "g">>} :
        LET ext == SplitExt(name)
        IN  /\ Len(ext) = Len(e) + 1
            /\ ext[1] = "."
            /\ \A i \in 1..Len(e) : LowerChar(ext[i + 1]) = e[i]

C1_ValidateIff ==
    v_done =>
        (v_result <=> /\ v_file # NoFile
                      /\ v_file.size <= 26214400
                      /\ AllowedExtensionCI(v_file.name))

\* a file of exactly 25 MiB with an upper-case extension has been accepted
C1_Witness ==
    /\ v_done
    /\ v_file # NoFile
    /\ v_file.size = 26214400
    /\ v_file.name = name_wav_upper
    /\ v_result

(***************************************************************************)
(* Observations the claims are stated with                                 *)
(***************************************************************************)
HasKey(d, k) == \E p \in d : p[1] = k
Get(d, k) == (CHOOSE p \in d : p[1] = k)[2]

\* the tier of the documented cascade an attempt belongs to
AttemptTier(a) ==
    IF a.input = "array" THEN "array"
    ELSE IF a.verbose THEN "cpu"
    ELSE "file"

TiersOf(attempts) == [i \in 1..Len(attempts) |-> AttemptTier(attempts[i])]

TranscribeReturned == req.op = "transcribe_audio"

(***************************************************************************)
(* C2: for every upload over 25 MiB or with a disallowed extension, a      *)
(* Transcribe click is rejected and does nothing further: no model load,   *)
(* no temporary file, no transcription attempt, and the service, the disk  *)
(* and the stored transcription / prompt session state stay as they were.  *)
(***************************************************************************)
OversizeOrDisallowed(upload) ==
    upload.size > 26214400 \/ ~AllowedExtensionCI(upload.name)

C2_RejectedDoesNothing ==
    [][(req' # req /\ req'.op = "click" /\ OversizeOrDisallowed(req'.upload)) =>
          /\ ~req'.valid
          /\ req'.load_calls = <<>>
          /\ req'.tmp_created = 0
          /\ req'.attempts = <<>>
          /\ service' = service
          /\ tmp_files' = tmp_files
          /\ session' = session]_vars

\* an oversize .wav was clicked while a transcription is stored and a model loaded
C2_Witness ==
    /\ req.op = "click"
    /\ req.upload.name = name_wav
    /\ req.upload.size = 26214401
    /\ ~req.valid
    /\ session.voice_original_prompt = txt_shot
    /\ service.model_loaded

(***************************************************************************)
(* C3: every temporary file created while handling a transcription request *)
(* no longer exists once the request returns, on every exit path           *)
(* (success, decode / transcription failure, error while writing the       *)
(* upload's bytes to the temporary file).                                  *)
(***************************************************************************)
C3_NoTempFileLeft ==
    TranscribeReturned => req.tmp_left = 0

(***************************************************************************)
(* C4: if the first-tier attempt (Attempt-File) fails and an in-memory     *)
(* decoded sample array is available, Attempt-Array is invoked exactly     *)
(* once, and before any CPU-fallback attempt.                              *)
(***************************************************************************)
C4_ArrayAttemptAfterFirstFailure ==
    (/\ TranscribeReturned
     /\ req.attempts # <<>>
     /\ ~req.attempts[1].ok
     /\ req.audio # <<>>) =>
        LET tiers == TiersOf(req.attempts)
            later == {i \in 2..Len(tiers) : tiers[i] = "array"}
        IN  /\ Cardinality(later) = 1
            /\ \A i \in 2..Len(tiers) : \A j \in later : tiers[i] = "cpu" => j < i

(***************************************************************************)
(* C5: a transcription failure is reported only after all three tiers      *)
(* (File, Array, CPU fallback) are exhausted: the failure of the first     *)
(* attempt alone never ends the request with an error, and when all        *)
(* attempts fail the returned text is empty.                               *)
(***************************************************************************)
C5_ErrorOnlyAfterAllTiers ==
    (/\ TranscribeReturned
     /\ req.attempts # <<>>
     /\ \A i \in 1..Len(req.attempts) : ~req.attempts[i].ok) =>
        /\ {"file", "array", "cpu"} \subseteq
               {AttemptTier(req.attempts[i]) : i \in 1..Len(req.attempts)}
        /\ req.text = <<>>

(***************************************************************************)
(* C6: attempts run in the fixed order File, Array, CPU fallback and stop  *)
(* at the first success: after a successful attempt no later attempt is    *)
(* run and the returned text is that attempt's text.                       *)
(***************************************************************************)
C6_FixedOrderStopAtFirstSuccess ==
    TranscribeReturned =>
        /\ TiersOf(req.attempts) \in
               {<<>>, <<"file">>, <<"file", "array">>, <<"file", "cpu">>,
                <<"file", "array", "cpu">>}
        /\ \A i \in 1..Len(req.attempts) :
               req.attempts[i].ok => (i = Len(req.attempts) /\ ~HasKey(req.info, "error"))

(***************************************************************************)
(* C7: a load_model(size) call that returns True leaves a model of the     *)
(* requested size resident: a no-op only when that size is already         *)
(* loaded, a fetch-and-load otherwise.                                     *)
(***************************************************************************)
C7_LoadedSizeIsRequested ==
    (req.op = "load_model" /\ req.load_ret) =>
        /\ service.model # NoModel
        /\ service.model.size = req.model_size

(***************************************************************************)
(* C8: for every successfully decoded mono or multi-channel input at any   *)
(* native sample rate, the audio handed to the model is single-channel     *)
(* (averaged when there was more than one channel) and at exactly 16000 Hz *)
(* (resampled when the native rate differs, untouched when it does not).   *)
(***************************************************************************)
C8_HandedMono16k ==
    (TranscribeReturned /\ req.handed # <<>>) =>
        LET decoded == req.audio[1]
            handed == req.handed[1]
            applied == {handed.ops[i] : i \in 1..Len(handed.ops)}
        IN  /\ handed.ndim = 1
            /\ handed.channels = 1
            /\ handed.rate = 16000
            /\ ("mean" \in applied) <=> (decoded.channels > 1)
            /\ ("resample" \in applied) <=> (decoded.rate # 16000)

\* a stereo 44.1 kHz input was handed to the model
C8_Witness ==
    /\ TranscribeReturned
    /\ req.handed # <<>>
    /\ req.audio[1].channels = 2
    /\ req.audio[1].rate = 44100

(***************************************************************************)
(* C9: every successful transcribe_audio result carries the language (the  *)
(* declared code, or "auto-detected" when none was given), the model       *)
(* identifier, and the compute device the model ran on for that request.   *)
(***************************************************************************)
C9_SuccessMetadata ==
    (/\ TranscribeReturned
     /\ req.attempts # <<>>
     /\ req.attempts[Len(req.attempts)].ok) =>
        /\ HasKey(req.info, "language")
        /\ Get(req.info, "language") =
               (IF req.language = "None" THEN "auto-detected" ELSE req.language)
        /\ HasKey(req.info, "model")
        /\ Get(req.info, "model") = "openai/whisper"
        /\ HasKey(req.info, "device")
        /\ Get(req.info, "device") = req.attempts[Len(req.attempts)].device

\* a transcription with a declared language succeeded on the accelerator
C9_Witness ==
    /\ TranscribeReturned
    /\ req.attempts # <<>>
    /\ req.attempts[1].ok
    /\ req.language = "en"
    /\ req.attempts[1].device = "cuda:0"
    /\ req.text = txt_sneaker

(***************************************************************************)
(* C10: enhance_voice_prompt returns the empty string for empty text, and  *)
(* for non-empty text appends the fixed suffix if and only if none of the  *)
(* seven keywords occurs in the text, case-insensitively; "a red sneaker   *)
(* on a table" yields the documented enhanced prompt.                      *)
(***************************************************************************)
KeywordOccursCI(text) ==
    \E kw \in photography_keywords :
        \E i \in 0..(Len(text) - Len(kw)) :
            \A j \in 1..Len(kw) : LowerChar(text[i + j]) = kw[j]

SuffixAppended(text, out) ==
    /\ Len(out) >= Len(text) + Len(enhancement_suffix)
    /\ \A j \in 1..Len(enhancement_suffix) :
           LowerChar(out[Len(text) + j]) = enhancement_suffix[j]

C10_SuffixIffNoKeyword ==
    e_done =>
        /\ e_text = <<>> => e_result = <<>>
        /\ e_text # <<>> => (SuffixAppended(e_text, e_result) <=> ~KeywordOccursCI(e_text))
        /\ e_text = txt_sneaker => e_result = txt_sneaker_enhanced

\* a text holding a keyword only in upper case was enhanced without the suffix
C10_Witness ==
    /\ e_done
    /\ e_text = txt_high_quality_upper \o txt_bang
    /\ ~SuffixAppended(e_text, e_result)

(***************************************************************************)
(* C11: for every non-empty input the result of enhance_voice_prompt ends  *)
(* with one of '.', '!' or '?': a single '.' is appended exactly when the  *)
(* text (after any suffix) does not already end with one of those three    *)
(* characters, and nothing is appended when it does.                       *)
(***************************************************************************)
\* the length of the text once the suffix, if any, is on it
LenAfterSuffix(text) ==
    IF KeywordOccursCI(text) THEN Len(text) ELSE Len(text) + Len(enhancement_suffix)

\* the last character of the text once the suffix, if any, is on it
LastAfterSuffix(text) ==
    IF KeywordOccursCI(text) THEN text[Len(text)]
    ELSE enhancement_suffix[Len(enhancement_suffix)]

C11_EndsWithPunctuation ==
    (e_done /\ e_text # <<>>) =>
        /\ e_result[Len(e_result)] \in {".", "!", "?"}
        /\ IF LastAfterSuffix(e_text) \in {".", "!", "?"}
           THEN Len(e_result) = LenAfterSuffix(e_text)
           ELSE /\ Len(e_result) = LenAfterSuffix(e_text) + 1
                /\ e_result[Len(e_result)] = "."

\* a text with a keyword that ends in '?' was enhanced and kept its ending
C11_Witness ==
    /\ e_done
    /\ e_text = kw_commercial \o txt_what
    /\ e_result[Len(e_result)] = "?"
    /\ Len(e_result) = Len(e_text)

(***************************************************************************)
(* C12: re-running enhance_voice_prompt never appends a second qualifier   *)
(* suffix: for any input that already contains a keyword and ends in       *)
(* punctuation, and in particular for any output of a previous call, the   *)
(* suffix is not appended again and no further punctuation is added.       *)
(***************************************************************************)
NothingAppended(text, out) ==
    /\ Len(out) = Len(text)
    /\ \A i \in 1..Len(text) : LowerChar(out[i]) = LowerChar(text[i])

C12_NoSecondSuffix ==
    [][e_done' =>
          /\ (/\ KeywordOccursCI(e_text')
              /\ e_text'[Len(e_text')] \in {".", "!", "?"}) =>
                 NothingAppended(e_text', e_result')
          /\ (e_done /\ e_text' = e_result) => NothingAppended(e_result, e_result')]_vars

\* the documented output, which carries the suffix, has been enhanced again
C12_Witness ==
    /\ e_done
    /\ e_text = txt_sneaker_enhanced
    /\ e_result = txt_sneaker_enhanced

(***************************************************************************)
(* C13: enhance_voice_prompt capitalizes the first letter of the result:   *)
(* apart from the appended suffix and the trailing period, the output      *)
(* differs from the input only in the case of its first character, every   *)
(* other character of the input keeping its original case.                 *)
(***************************************************************************)
C13_OnlyFirstLetterChanges ==
    (e_done /\ e_text # <<>>) =>
        /\ Len(e_result) >= Len(e_text)
        /\ e_result[1] = UpperChar(e_text[1])
        /\ \A i \in 2..Len(e_text) : e_result[i] = e_text[i]

(***************************************************************************)
(* C14: image-URL extraction tries the shapes result[0].urls[0],           *)
(* result[0].url, result_url, url, result_urls[0] in that order and        *)
(* returns the first that matches; a response whose earlier shape's key is *)
(* present but yields no URL still has the later shapes tried, so a URL is *)
(* extracted whenever at least one listed shape matches.                   *)
(***************************************************************************)
\* the URLs the five listed shapes yield, in priority order (<<>>: no match)
ShapeUrls(r) ==
    LET first == IF r.result # <<>> /\ r.result[1].kind = "list" /\ r.result[1].items # <<>>
                 THEN <<r.result[1].items[1]>> ELSE <<>>
    IN  << IF first # <<>> /\ first[1].urls # <<>> /\ first[1].urls[1] # <<>>
           THEN <<first[1].urls[1][1]>> ELSE <<>>,
           IF first # <<>> THEN first[1].url ELSE <<>>,
           r.result_url,
           r.url,
           IF r.result_urls # <<>> /\ r.result_urls[1] # <<>>
           THEN <<r.result_urls[1][1]>> ELSE <<>> >>

Matches(r) == {i \in 1..5 : ShapeUrls(r)[i] # <<>> /\ ShapeUrls(r)[i][1] # ""}

GenerateAnswered == gen.op = "generate" /\ gen.has_key /\ ~gen.raised

C14_FirstMatchingShape ==
    (GenerateAnswered /\ gen.response.kind = "dict" /\ Matches(gen.response) # {}) =>
        LET i == CHOOSE i \in Matches(gen.response) :
                     \A j \in Matches(gen.response) : i <= j
        IN  /\ gen.image_url = ShapeUrls(gen.response)[i]
            /\ gen.reported = "success"

(***************************************************************************)
(* C15: when the image API response matches none of the recognised shapes  *)
(* (e.g. {"foo": "bar"}), is empty, or the call raises, no URL is          *)
(* extracted, generation is reported as failed and generated_images is     *)
(* left unchanged; an entry with source 'voice' is appended only when a    *)
(* URL was extracted.                                                      *)
(***************************************************************************)
NoRecognisedShape(r) ==
    \/ r.kind # "dict"
    \/ /\ r.result = <<>>
       /\ r.result_url = <<>>
       /\ r.url = <<>>
       /\ r.result_urls = <<>>

C15_NoUrlNoImage ==
    [][((gen' # gen \/ images' # images) /\ gen'.op = "generate") =>
          /\ (gen'.raised \/ NoRecognisedShape(gen'.response)) =>
                 /\ gen'.image_url = <<>>
                 /\ gen'.reported \in {"failed", "error"}
                 /\ images' = images
          /\ images' # images =>
                 /\ gen'.image_url # <<>>
                 /\ gen'.image_url[1] # ""
                 /\ gen'.reported = "success"
                 /\ Len(images') = Len(images) + 1
                 /\ SubSeq(images', 1, Len(images)) = images
                 /\ images'[Len(images')].source = "voice"
                 /\ images'[Len(images')].url = gen'.image_url[1]]_vars

\* a response of an unrecognised shape was answered with a failure while an
\* image of an earlier click is stored
C15_Witness ==
    /\ GenerateAnswered
    /\ gen.response = [kind |-> "dict", result |-> <<>>, result_url |-> <<>>,
                       url |-> <<>>, result_urls |-> <<>>]
    /\ gen.reported = "failed"
    /\ Len(images) = 1
    /\ images[1].source = "voice"

(***************************************************************************)
(* C16: remove_background contacts the alternate endpoint only after the   *)
(* primary endpoint answered HTTP 404, and then exactly once; any other    *)
(* HTTP error status from the primary, and any error from the alternate    *)
(* endpoint, fails the call with an exception without further retries.     *)
(***************************************************************************)
AlternateCalls == {i \in 1..Len(bg.calls) : bg.calls[i].endpoint = AlternateEndpoint}

ReplyIsError(reply) == reply.kind # "http" \/ reply.status >= 400

C16_FallbackOnlyOn404 ==
    (bg.op = "remove_background" /\ bg.calls # <<>>) =>
        LET first == bg.calls[1]
            answered404 == first.reply.kind = "http" /\ first.reply.status = 404
        IN  /\ first.endpoint = PrimaryEndpoint
            /\ AlternateCalls = (IF answered404 THEN {2} ELSE {})
            /\ Len(bg.calls) = (IF answered404 THEN 2 ELSE 1)
            /\ (first.reply.kind = "http" /\ first.reply.status >= 400 /\ ~answered404) =>
                   bg.outcome = "raised"
            /\ (answered404 /\ ReplyIsError(bg.calls[2].reply)) => bg.outcome = "raised"

\* the primary answered 404 and the alternate endpoint, asked once, answered 500
C16_Witness ==
    /\ bg.op = "remove_background"
    /\ Len(bg.calls) = 2
    /\ bg.calls[1].reply.status = 404
    /\ bg.calls[2].endpoint = AlternateEndpoint
    /\ bg.calls[2].reply.status = 500
    /\ bg.outcome = "raised"

(***************************************************************************)
(* C17: for every successful background-removal response (primary or       *)
(* alternate endpoint) that contains 'result_url', a non-empty 'urls'      *)
(* list, or 'url', the returned dictionary has a 'result_url' key whose    *)
(* value is taken from the first of those three shapes that is present,    *)
(* in that order.                                                          *)
(***************************************************************************)
HasUrlsList(body) ==
    body.urls # <<>> /\ body.urls[1].list /\ body.urls[1].items # <<>>

C17_ResultUrlNormalized ==
    (/\ bg.op = "remove_background"
     /\ bg.outcome = "returned"
     /\ LET body == bg.calls[Len(bg.calls)].reply.body[1]
        IN  body.result_url # <<>> \/ HasUrlsList(body) \/ body.url # <<>>) =>
        LET body == bg.calls[Len(bg.calls)].reply.body[1]
            expected == IF body.result_url # <<>> THEN body.result_url[1]
                        ELSE IF HasUrlsList(body) THEN body.urls[1].items[1]
                        ELSE body.url[1]
        IN  /\ bg.returned[1].result_url # <<>>
            /\ bg.returned[1].result_url[1] = expected

\* the alternate endpoint answered with both a 'urls' list and a 'url'
C17_Witness ==
    /\ bg.op = "remove_background"
    /\ bg.outcome = "returned"
    /\ Len(bg.calls) = 2
    /\ bg.calls[2].reply.body[1].result_url = <<>>
    /\ HasUrlsList(bg.calls[2].reply.body[1])
    /\ bg.calls[2].reply.body[1].url # <<>>
    /\ bg.returned[1].result_url = <<"http://urls0">>

(***************************************************************************)
(* C18: transcribe_audio never raises to its caller: every failure (model  *)
(* load failure, temp-file write error, decode error, model error) is      *)
(* returned as the pair of an empty text and an info record containing an  *)
(* 'error' key, and a non-empty text is returned only together with an     *)
(* info record that has no 'error' key.                                    *)
(***************************************************************************)
\* the call did not get a transcription out of the model
CallFailed == req.attempts = <<>> \/ ~req.attempts[Len(req.attempts)].ok

C18_FailuresAreReturned ==
    TranscribeReturned =>
        /\ ~req.raised
        /\ CallFailed => (req.text = <<>> /\ HasKey(req.info, "error"))
        /\ req.text # <<>> => ~HasKey(req.info, "error")

\* the load made by transcribe_audio itself failed
C18_Witness ==
    /\ TranscribeReturned
    /\ req.load_calls = <<"base">>
    /\ req.tmp_created = 0
    /\ ~service.model_loaded
    /\ req.text = <<>>
    /\ req.info = {<<"error", "Failed to load Whisper model">>}

(***************************************************************************)
(* C19: in every state reachable by load_model and transcribe_audio calls, *)
(* including loads that fail part-way, model_loaded is true only if both   *)
(* the model and the processor are set; a load_model call that returns     *)
(* False leaves model_loaded false, and the model is never invoked for     *)
(* transcription while model_loaded is false.                              *)
(***************************************************************************)
C19_LoadedMeansModelAndProcessor ==
    /\ service.model_loaded =>
           (service.model # [none |-> TRUE] /\ service.processor # "None")
    /\ (req.op = "load_model" /\ ~req.load_ret) => ~service.model_loaded
    /\ (TranscribeReturned /\ req.load_calls # <<>> /\ req.tmp_created = 0
            /\ req.info = {<<"error", "Failed to load Whisper model">>}) =>
           ~service.model_loaded
    /\ (TranscribeReturned /\ req.attempts # <<>>) => service.model_loaded

\* a load that failed while moving the model to the accelerator: the model
\* and the processor are set and model_loaded is still false
C19_Witness ==
    /\ req.op = "load_model"
    /\ ~req.load_ret
    /\ service.model # [none |-> TRUE]
    /\ service.processor # "None"
    /\ ~service.model_loaded

=============================================================================
